---- MODULE Spec2Model ----
(***************************************************************************)
(* A model of the FSM engine of src/lib/fsm.js: the transition table, the  *)
(* callback registry, FSM.advance with its suspension points (the join on  *)
(* the pretransition handlers, the awaited transitionFn, the join on the   *)
(* posttransition handlers) and the run driver runFSM.                     *)
(*                                                                         *)
(* JavaScript values are records [t |-> type, d |-> description]; an array *)
(* is a sequence of such values.  One action is one run-to-completion      *)
(* segment of the code between two awaits.                                 *)
(***************************************************************************)
EXTENDS Integers, Sequences, FiniteSets, TLC

VARIABLES
    currentState,      \* FSM.currentState
    inTransition,      \* FSM.inTransition
    validTransitions,  \* FSM.validTransitions: property key -> sequence of rules
    callbacks,         \* FSM.callbacks: event name -> sequence of handlers
    adv,               \* the activation of advance that passed the guard
    hooks,             \* the handler promises of the last fired event
    fireErr,           \* the first rejection among them (what Promise.all rejects with)
    settled,           \* how the last advance that passed the guard settled
    lastCall,          \* how the last advance call was received
    calls,             \* number of advance calls issued so far
    invoked,           \* the rules whose transitionFn the activation has invoked
    postFired,         \* number of posttransition fires of the activation
    payload,           \* the argument the handlers of the last fired event got
    lastAdd,           \* the last call of addTransition and what it threw
    run,               \* the activation of runFSM
    transitionLog,     \* the array logTransitions was given
    initialState,      \* the state the instance was constructed with
    lastRerun          \* the last call of rerunFSM

vars == <<currentState, inTransition, validTransitions, callbacks, adv, hooks,
          fireErr, settled, lastCall, calls, invoked, postFired, payload, lastAdd, run,
          transitionLog, initialState, lastRerun>>

(***************************************************************************)
(* Bounds of the model.                                                    *)
(***************************************************************************)
MaxRules == 2
MaxHandlers == 1
MaxCalls == 2
MaxJoined == 2

(***************************************************************************)
(* Values.                                                                 *)
(***************************************************************************)
Undefined == [t |-> "undefined", d |-> ""]
Str(s) == [t |-> "string", d |-> s]
Sym(s) == [t |-> "symbol", d |-> s]
Err(s) == [t |-> "Error", d |-> s]
FSMError(s) == [t |-> "FSMError", d |-> s]

EMPTY == Sym("EMPTY")
ERROR == Sym("ERROR")

\* JavaScript truthiness: undefined and the empty string are falsy
Truthy(v) == ~(v.t = "undefined" \/ (v.t = "string" /\ v.d = ""))

\* state.description || state + "": the description of a symbol, the
\* characters of a string
getLabel(state) == CASE state.t = "symbol" -> state.d
                     [] state.t = "string" -> state.d

makeStates(names) == [n \in names |-> Str(n)]

STATES == makeStates({"A", "B", "C", "ERR1"})
EVENTS == makeStates({"pretransition", "posttransition"})

\* the key under which hashList[key] stores: a symbol is its own key, any
\* other value is converted to a string
PropertyKey(v) == IF v.t = "symbol" THEN v ELSE Str(v.d)

A == STATES["A"]
B == STATES["B"]
C == STATES["C"]
ERR1 == STATES["ERR1"]

\* values passed between transitions
x == Str("x")
y == Str("y")
v == Str("v")

(***************************************************************************)
(* Transition functions.  A transitionFn is described by its body; applying *)
(* it to the input gives a returned value (an array or not) or a throw.    *)
(***************************************************************************)
NoFn == [body |-> "none", isArray |-> FALSE, vals |-> <<>>]
Ret(val) == [body |-> "const", isArray |-> FALSE, vals |-> <<val>>]
RetArr(arr) == [body |-> "const", isArray |-> TRUE, vals |-> arr]
Throw(e) == [body |-> "throw", isArray |-> FALSE, vals |-> <<e>>]
Args == [body |-> "args", isArray |-> TRUE, vals |-> <<>>]
Prepend(s) == [body |-> "prepend", isArray |-> TRUE, vals |-> <<s>>]

\* invokePromiseFn(fn, ...args): the promise's settlement
invokePromiseFn(fn, args) ==
    CASE fn.body = "const" -> [kind |-> "return", isArray |-> fn.isArray, vals |-> fn.vals]
      [] fn.body = "throw" -> [kind |-> "throw", isArray |-> FALSE, vals |-> fn.vals]
      [] fn.body = "args" -> [kind |-> "return", isArray |-> TRUE, vals |-> args]
      [] fn.body = "prepend" -> [kind |-> "return", isArray |-> TRUE, vals |-> fn.vals \o args]

Rule(fn, ns, es) == [transitionFn |-> fn, nextState |-> ns, errorState |-> es]

\* the option objects addTransition is called with
RuleOptions ==
    { Rule(NoFn, B, Undefined),
      Rule(NoFn, Undefined, Undefined),
      Rule(Ret(Undefined), Undefined, Undefined),
      Rule(RetArr(<<Undefined, y>>), Undefined, Undefined),
      Rule(RetArr(<<>>), Undefined, Undefined),
      Rule(Ret(C), Undefined, Undefined),
      Rule(Prepend(B), Undefined, Undefined),
      Rule(Prepend(C), B, Undefined),
      Rule(Ret(x), B, Undefined),
      Rule(Ret(Undefined), B, Undefined),
      Rule(Throw(Err("err")), Undefined, Undefined),
      Rule(Throw(Err("err")), B, ERR1) }

\* the option objects of the specification of the hooks: a self-transition,
\* a computed next state, a candidate that is not applicable
HookRuleOptions ==
    { Rule(NoFn, A, Undefined),
      Rule(Ret(B), Undefined, Undefined),
      Rule(Ret(Undefined), Undefined, Undefined) }

\* the option objects of the specification of the run driver
RunRuleOptions ==
    { Rule(NoFn, B, Undefined),
      Rule(Ret(Undefined), Undefined, Undefined),
      Rule(Ret(C), Undefined, Undefined),
      Rule(Prepend(C), Undefined, Undefined),
      Rule(Ret(x), B, Undefined),
      Rule(Throw(Err("err")), Undefined, Undefined) }

\* the states rules are registered for
StartingStates == {A, B}

\* the arguments advance and runFSM are called with
Inputs == {<<>>, <<v>>}

(***************************************************************************)
(* Event handlers: synchronous or returning a pending promise, completing  *)
(* or failing with err.                                                    *)
(***************************************************************************)
Handler(mode, fails, e) == [mode |-> mode, fails |-> fails, err |-> e]

HandlerOptions ==
    { Handler("sync", FALSE, Undefined),
      Handler("sync", TRUE, Err("sync handler")),
      Handler("async", FALSE, Undefined),
      Handler("async", TRUE, Err("async handler")) }

\* the handlers that fail
FailingHandlerOptions == {h \in HandlerOptions : h.fails}

\* the handler logTransitions registers: it pushes a record to transitionLog
\* and returns the new length
LogHandler == Handler("log", FALSE, Undefined)

(***************************************************************************)
(* Hash lists and the callback registry.                                   *)
(***************************************************************************)
\* hashList[key] || []
listOf(hashList, key) == IF key \in DOMAIN hashList THEN hashList[key] ELSE <<>>

\* a save that always appends
saveToHashListPush(hashList, key, value, prepend) ==
    LET k == PropertyKey(key)
    IN  [h \in DOMAIN hashList \cup {k} |->
            IF h = k THEN Append(listOf(hashList, k), value) ELSE hashList[h]]

saveToHashList(hashList, key, value, prepend) ==
    LET k == PropertyKey(key)
        list == listOf(hashList, k)
        saved == IF prepend THEN <<value>> \o list ELSE Append(list, value)
    IN  [h \in DOMAIN hashList \cup {k} |-> IF h = k THEN saved ELSE hashList[h]]

\* a loop over the handlers that ends at the first synchronous throw
callbackHashListStop(hashList, eventName) ==
    LET list == listOf(hashList, PropertyKey(eventName))
        thrower == {i \in 1..Len(list) : list[i].mode = "sync" /\ list[i].fails}
        last == IF thrower = {} THEN Len(list)
                ELSE CHOOSE i \in thrower : \A j \in thrower : i <= j
    IN  [i \in 1..last |->
            [fn |-> list[i],
             st |-> IF list[i].mode = "async" THEN "pending"
                    ELSE IF list[i].fails THEN "rejected" ELSE "fulfilled",
             fails |-> list[i].fails,
             err |-> list[i].err]]

\* the promises callbackHashList builds, one per handler of the event: a
\* synchronous handler's promise is settled at once, an asynchronous one's
\* is pending
callbackHashList(hashList, eventName) ==
    LET list == listOf(hashList, PropertyKey(eventName))
    IN  [i \in 1..Len(list) |->
            [fn |-> list[i],
             st |-> IF list[i].mode = "async" THEN "pending"
                    ELSE IF list[i].fails THEN "rejected" ELSE "fulfilled",
             fails |-> list[i].fails,
             err |-> list[i].err]]

\* {time: new Date(), ...transitionData}: the record a logging handler
\* pushes for the payload it is called with (the time, which no operation
\* reads, is left out)
TransitionRecord(transitionData) ==
    [from |-> transitionData.from, to |-> transitionData.to,
     transition |-> transitionData.transition,
     input |-> transitionData.input, output |-> transitionData.output]

\* the log after the handlers behind promises have been called with
\* transitionData: every logging handler among them has pushed its record
invokeHandlers(log, promises, transitionData) ==
    LET logging == {i \in 1..Len(promises) : promises[i].fn.mode = "log"}
    IN  log \o [i \in 1..Cardinality(logging) |-> TransitionRecord(transitionData)]

\* the rejection Promise.all sees first among promises settled at creation
firstRejection(promises) ==
    LET rej == {i \in 1..Len(promises) : promises[i].st = "rejected"}
    IN  IF rej = {} THEN <<>>
        ELSE <<promises[CHOOSE i \in rej : \A j \in rej : i <= j].err>>

\* a join that waits for every promise and ignores the rejections
PromiseAllSettled(promises, firstErr) ==
    IF \A i \in 1..Len(promises) : promises[i].st # "pending" THEN "fulfilled"
    ELSE "pending"

\* a join that is fulfilled as soon as one promise is
PromiseAny(promises, firstErr) ==
    IF firstErr # <<>> THEN "rejected"
    ELSE IF Len(promises) = 0 \/ \E i \in 1..Len(promises) : promises[i].st = "fulfilled"
    THEN "fulfilled"
    ELSE "pending"

\* Promise.all(promises): rejected with the first rejection, fulfilled once
\* every promise is, pending otherwise
PromiseAll(promises, firstErr) ==
    IF firstErr # <<>> THEN "rejected"
    ELSE IF \A i \in 1..Len(promises) : promises[i].st = "fulfilled" THEN "fulfilled"
    ELSE "pending"

(***************************************************************************)
(* The engine.                                                             *)
(***************************************************************************)
NoRule == Rule(NoFn, Undefined, Undefined)
NoOutcome == [kind |-> "none", vals |-> <<>>]
Resolved(vals) == [kind |-> "resolved", vals |-> vals]
Rejected(e) == [kind |-> "rejected", vals |-> <<e>>]

IdleAdv == [pc |-> "idle", input |-> <<>>, transitionIndex |-> 0,
            nextState |-> Undefined, attemptedTransition |-> NoRule,
            transitionOutput |-> <<>>, prevState |-> Undefined, caller |-> "none"]
\* runFSM's locals, the settlement of the advance it awaits (inbox), the
\* arguments it was called with (args0) and the history of its advance
\* calls: the inputs it passed and the results it got
IdleRun == [pc |-> "idle", finalStates |-> <<>>, nextState |-> Undefined,
            args |-> <<>>, result |-> NoOutcome, inbox |-> NoOutcome,
            args0 |-> <<>>, passed |-> <<>>, got |-> <<>>]
NoPayload == [event |-> "none", from |-> Undefined, to |-> Undefined,
              transition |-> NoRule, input |-> <<>>, output |-> <<>>]

NoAdd == [startingState |-> Undefined, rule |-> NoRule, prepend |-> FALSE, threw |-> <<>>]

NoRerun == [initialState |-> Undefined, finalStates |-> <<>>, transitionLog |-> <<>>]

\* new FSM(): the initial state defaults to EMPTY
Init ==
    /\ currentState \in {EMPTY, A}
    /\ inTransition = FALSE
    /\ validTransitions = <<>>
    /\ callbacks = <<>>
    /\ adv = IdleAdv
    /\ hooks = <<>>
    /\ fireErr = <<>>
    /\ settled = NoOutcome
    /\ lastCall = NoOutcome
    /\ calls = 0
    /\ invoked = <<>>
    /\ postFired = 0
    /\ payload = NoPayload
    /\ lastAdd = NoAdd
    /\ run = IdleRun
    /\ transitionLog = <<>>
    /\ initialState = currentState
    /\ lastRerun = NoRerun

\* FSM.on, for an instance with fewer than max handlers
Register(max, eventName, callback) ==
    /\ adv.pc = "idle" /\ run.pc \in {"idle", "done"}
    /\ Len(listOf(callbacks, EVENTS["pretransition"]))
         + Len(listOf(callbacks, EVENTS["posttransition"])) < max
    /\ callbacks' = saveToHashList(callbacks, eventName, callback, FALSE)
    /\ UNCHANGED <<currentState, inTransition, validTransitions, adv, hooks, fireErr,
                   settled, lastCall, calls, invoked, postFired, payload, lastAdd, run,
                   transitionLog, initialState, lastRerun>>

On(eventName, callback) == Register(MaxHandlers, eventName, callback)

\* a logging handler registered for pretransition
logTransitionsPre(hashList) ==
    saveToHashList(hashList, EVENTS["pretransition"], LogHandler, FALSE)

\* logTransitions(fsm, transitionLog): fsm.on(EVENTS.posttransition, ...)
logTransitions(hashList) ==
    saveToHashList(hashList, EVENTS["posttransition"], LogHandler, FALSE)

\* the log is attached to the instance before its first advance
LogTransitionsFirst ==
    /\ calls = 0
    /\ adv.pc = "idle" /\ run.pc \in {"idle", "done"}
    /\ \A e \in DOMAIN callbacks :
          \A i \in 1..Len(callbacks[e]) : callbacks[e][i] # LogHandler
    /\ callbacks' = logTransitions(callbacks)
    /\ UNCHANGED <<currentState, inTransition, validTransitions, adv, hooks, fireErr,
                   settled, lastCall, calls, invoked, postFired, payload, lastAdd, run,
                   transitionLog, initialState, lastRerun>>

\* the log is attached to the instance, once
LogTransitions ==
    /\ adv.pc = "idle" /\ run.pc \in {"idle", "done"}
    /\ \A e \in DOMAIN callbacks :
          \A i \in 1..Len(callbacks[e]) : callbacks[e][i] # LogHandler
    /\ callbacks' = logTransitions(callbacks)
    /\ UNCHANGED <<currentState, inTransition, validTransitions, adv, hooks, fireErr,
                   settled, lastCall, calls, invoked, postFired, payload, lastAdd, run,
                   transitionLog, initialState, lastRerun>>

RECURSIVE SumLen(_, _)
SumLen(hashList, keys) ==
    IF keys = {} THEN 0
    ELSE LET k == CHOOSE k \in keys : TRUE
         IN  Len(hashList[k]) + SumLen(hashList, keys \ {k})

\* FSM.addTransition: a rule with neither transitionFn nor nextState throws
\* and saves nothing
invalidRule(rule) == rule.transitionFn.body = "none" /\ ~Truthy(rule.nextState)

\* a validation that comes after the save
addTransitionSaveFirst(table, startingState, rule, prepend) ==
    saveToHashList(table, startingState, rule, prepend)

addTransition(table, startingState, rule, prepend) ==
    IF invalidRule(rule)
    THEN table
    ELSE saveToHashList(table, startingState, rule, prepend)

AddTransition(startingState, rule, prepend) ==
    /\ adv.pc = "idle" /\ run.pc \in {"idle", "done"}
    /\ SumLen(validTransitions, DOMAIN validTransitions) < MaxRules
    /\ validTransitions' = addTransition(validTransitions, startingState, rule, prepend)
    /\ lastAdd' = [startingState |-> startingState, rule |-> rule, prepend |-> prepend,
                    threw |-> IF invalidRule(rule)
                              THEN <<FSMError("cannot add transition from "
                                              \o getLabel(startingState)
                                              \o " without a transitionFn or nextState defined")>>
                              ELSE <<>>]
    /\ UNCHANGED <<currentState, inTransition, callbacks, adv, hooks, fireErr,
                   settled, lastCall, calls, invoked, postFired, payload, run,
                   transitionLog, initialState, lastRerun>>

\* an attempt where a declared nextState also wins over the errorState
attemptStaticWins(rule, outcome) ==
    IF outcome.kind = "throw"
    THEN [nextState |-> IF Truthy(rule.nextState) THEN rule.nextState
                        ELSE IF Truthy(rule.errorState) THEN rule.errorState ELSE ERROR,
          transitionOutput |-> outcome.vals]
    ELSE IF outcome.isArray
    THEN IF ~Truthy(rule.nextState)
         THEN [nextState |-> IF outcome.vals = <<>> THEN Undefined ELSE Head(outcome.vals),
               transitionOutput |-> IF outcome.vals = <<>> THEN <<>> ELSE Tail(outcome.vals)]
         ELSE [nextState |-> rule.nextState, transitionOutput |-> outcome.vals]
    ELSE IF Truthy(outcome.vals[1])
    THEN IF ~Truthy(rule.nextState)
         THEN [nextState |-> outcome.vals[1], transitionOutput |-> <<>>]
         ELSE [nextState |-> rule.nextState, transitionOutput |-> <<outcome.vals[1]>>]
    ELSE [nextState |-> rule.nextState, transitionOutput |-> <<>>]

\* an attempt that destructures a returned array whether or not the rule
\* declares a nextState
attemptArrayWins(rule, outcome) ==
    IF outcome.kind = "throw"
    THEN [nextState |-> IF Truthy(rule.errorState) THEN rule.errorState ELSE ERROR,
          transitionOutput |-> outcome.vals]
    ELSE IF outcome.isArray
    THEN [nextState |-> IF outcome.vals = <<>> THEN Undefined ELSE Head(outcome.vals),
          transitionOutput |-> IF outcome.vals = <<>> THEN <<>> ELSE Tail(outcome.vals)]
    ELSE IF Truthy(outcome.vals[1])
    THEN IF ~Truthy(rule.nextState)
         THEN [nextState |-> outcome.vals[1], transitionOutput |-> <<>>]
         ELSE [nextState |-> rule.nextState, transitionOutput |-> <<outcome.vals[1]>>]
    ELSE [nextState |-> rule.nextState, transitionOutput |-> <<>>]

\* lines 97-126 of advance: the next state and the output one attempted
\* rule gives, from the settlement of its transitionFn
attempt(rule, outcome) ==
    IF outcome.kind = "throw"
    THEN [nextState |-> IF Truthy(rule.errorState) THEN rule.errorState ELSE ERROR,
          transitionOutput |-> outcome.vals]
    ELSE IF outcome.isArray
    THEN IF ~Truthy(rule.nextState)
         THEN [nextState |-> IF outcome.vals = <<>> THEN Undefined ELSE Head(outcome.vals),
               transitionOutput |-> IF outcome.vals = <<>> THEN <<>> ELSE Tail(outcome.vals)]
         ELSE [nextState |-> rule.nextState, transitionOutput |-> outcome.vals]
    ELSE IF Truthy(outcome.vals[1])
    THEN IF ~Truthy(rule.nextState)
         THEN [nextState |-> outcome.vals[1], transitionOutput |-> <<>>]
         ELSE [nextState |-> rule.nextState, transitionOutput |-> <<outcome.vals[1]>>]
    ELSE [nextState |-> rule.nextState, transitionOutput |-> <<>>]

\* a loop that does not empty transitionOutput before an attempt
RECURSIVE scanKeepOutput(_, _, _, _, _)
scanKeepOutput(list, i, nextState, attempted, output) ==
    IF Truthy(nextState) \/ i > Len(list)
    THEN [susp |-> FALSE, transitionIndex |-> i, nextState |-> nextState,
          attemptedTransition |-> attempted, transitionOutput |-> output]
    ELSE IF list[i].transitionFn.body # "none"
    THEN [susp |-> TRUE, transitionIndex |-> i, nextState |-> list[i].nextState,
          attemptedTransition |-> list[i], transitionOutput |-> output]
    ELSE scanKeepOutput(list, i + 1, list[i].nextState, list[i], output)

\* the for loop of advance from transitionIndex i on, up to the next await
\* of a transitionFn (susp) or to the end of the loop
RECURSIVE scan(_, _, _, _, _)
scan(list, i, nextState, attempted, output) ==
    IF Truthy(nextState) \/ i > Len(list)
    THEN [susp |-> FALSE, transitionIndex |-> i, nextState |-> nextState,
          attemptedTransition |-> attempted, transitionOutput |-> output]
    ELSE IF list[i].transitionFn.body # "none"
    THEN [susp |-> TRUE, transitionIndex |-> i, nextState |-> list[i].nextState,
          attemptedTransition |-> list[i], transitionOutput |-> <<>>]
    ELSE scan(list, i + 1, list[i].nextState, list[i], <<>>)

\* the candidates of the current state
candidates == listOf(validTransitions, PropertyKey(currentState))

\* the message built from String(state) instead of the label
noValidTransitionString(state) ==
    FSMError("No valid transition from state "
             \o (IF state.t = "symbol" THEN "Symbol(" \o state.d \o ")" ELSE state.d))

noValidTransition(state) == FSMError("No valid transition from state " \o getLabel(state))

Deliver(outcome) ==
    run' = IF adv.caller = "run" THEN [run EXCEPT !.inbox = outcome] ELSE run

\* a commit that reads the previous state after the state is written
ContinueLateFrom(sr) ==
    IF sr.susp
    THEN /\ adv' = [adv EXCEPT !.pc = "fn",
                                !.transitionIndex = sr.transitionIndex,
                                !.nextState = sr.nextState,
                                !.attemptedTransition = sr.attemptedTransition,
                                !.transitionOutput = sr.transitionOutput]
         /\ invoked' = Append(invoked, sr.transitionIndex)
         /\ UNCHANGED <<currentState, inTransition, hooks, fireErr, settled,
                        postFired, payload, lastAdd, run, transitionLog>>
    ELSE IF ~Truthy(sr.nextState)
    THEN /\ settled' = Rejected(noValidTransition(currentState))
         /\ Deliver(Rejected(noValidTransition(currentState)))
         /\ adv' = IdleAdv
         /\ UNCHANGED <<currentState, inTransition, hooks, fireErr, invoked,
                        postFired, payload, lastAdd, transitionLog>>
    ELSE /\ currentState' = sr.nextState
         /\ hooks' = callbackHashList(callbacks, EVENTS["posttransition"])
         /\ fireErr' = firstRejection(hooks')
         /\ payload' = [event |-> "posttransition", from |-> sr.nextState,
                         to |-> sr.nextState, transition |-> sr.attemptedTransition,
                         input |-> adv.input, output |-> sr.transitionOutput]
         /\ transitionLog' = invokeHandlers(transitionLog, hooks', payload')
         /\ postFired' = postFired + 1
         /\ adv' = [adv EXCEPT !.pc = "post",
                                !.transitionIndex = sr.transitionIndex,
                                !.nextState = sr.nextState,
                                !.attemptedTransition = sr.attemptedTransition,
                                !.transitionOutput = sr.transitionOutput,
                                !.prevState = sr.nextState]
         /\ UNCHANGED <<inTransition, settled, invoked, run>>

\* advance from the point where the scan is at sr: suspended in a
\* transitionFn, or past the loop (lines 129-142)
Continue(sr) ==
    IF sr.susp
    THEN /\ adv' = [adv EXCEPT !.pc = "fn",
                                !.transitionIndex = sr.transitionIndex,
                                !.nextState = sr.nextState,
                                !.attemptedTransition = sr.attemptedTransition,
                                !.transitionOutput = sr.transitionOutput]
         /\ invoked' = Append(invoked, sr.transitionIndex)
         /\ UNCHANGED <<currentState, inTransition, hooks, fireErr, settled,
                        postFired, payload, lastAdd, run, transitionLog>>
    ELSE IF ~Truthy(sr.nextState)
    THEN /\ settled' = Rejected(noValidTransition(currentState))
         /\ Deliver(Rejected(noValidTransition(currentState)))
         /\ adv' = IdleAdv
         /\ UNCHANGED <<currentState, inTransition, hooks, fireErr, invoked,
                        postFired, payload, lastAdd, transitionLog>>
    ELSE /\ currentState' = sr.nextState
         /\ hooks' = callbackHashList(callbacks, EVENTS["posttransition"])
         /\ fireErr' = firstRejection(hooks')
         /\ payload' = [event |-> "posttransition", from |-> currentState,
                         to |-> sr.nextState, transition |-> sr.attemptedTransition,
                         input |-> adv.input, output |-> sr.transitionOutput]
         /\ transitionLog' = invokeHandlers(transitionLog, hooks', payload')
         /\ postFired' = postFired + 1
         /\ adv' = [adv EXCEPT !.pc = "post",
                                !.transitionIndex = sr.transitionIndex,
                                !.nextState = sr.nextState,
                                !.attemptedTransition = sr.attemptedTransition,
                                !.transitionOutput = sr.transitionOutput,
                                !.prevState = currentState]
         /\ UNCHANGED <<inTransition, settled, invoked, run>>

\* a guard that never holds
cannotAdvanceNever == FALSE

\* the reentrancy guard of advance (line 75)
cannotAdvance == inTransition

\* an advance whose rejection by the guard also releases the guard
advanceFromRelease(state, caller, input) ==
    /\ calls' = calls + 1
    /\ currentState' = state
    /\ IF cannotAdvance
       THEN /\ lastCall' = Rejected(FSMError("cannot advance while in transition"))
            /\ inTransition' = FALSE
            /\ UNCHANGED <<adv, hooks, fireErr, settled,
                           invoked, postFired, payload, lastAdd, transitionLog>>
       ELSE /\ lastCall' = [kind |-> "accepted", vals |-> input]
            /\ inTransition' = TRUE
            /\ hooks' = callbackHashList(callbacks, EVENTS["pretransition"])
            /\ fireErr' = firstRejection(hooks')
            /\ payload' = [event |-> "pretransition", from |-> state,
                            to |-> Undefined, transition |-> NoRule,
                            input |-> input, output |-> <<>>]
            /\ transitionLog' = invokeHandlers(transitionLog, hooks', payload')
            /\ adv' = [IdleAdv EXCEPT !.pc = "pre", !.input = input, !.caller = caller]
            /\ settled' = NoOutcome
            /\ invoked' = <<>>
            /\ postFired' = 0
    /\ UNCHANGED <<validTransitions, callbacks, lastAdd, initialState>>

\* FSM.advance up to its first await (lines 75-83), called when
\* this.currentState is state; the caller's run is left to the caller
advanceFrom(state, caller, input) ==
    /\ calls' = calls + 1
    /\ currentState' = state
    /\ IF cannotAdvance
       THEN /\ lastCall' = Rejected(FSMError("cannot advance while in transition"))
            /\ UNCHANGED <<inTransition, adv, hooks, fireErr, settled,
                           invoked, postFired, payload, lastAdd, transitionLog>>
       ELSE /\ lastCall' = [kind |-> "accepted", vals |-> input]
            /\ inTransition' = TRUE
            /\ hooks' = callbackHashList(callbacks, EVENTS["pretransition"])
            /\ fireErr' = firstRejection(hooks')
            /\ payload' = [event |-> "pretransition", from |-> state,
                            to |-> Undefined, transition |-> NoRule,
                            input |-> input, output |-> <<>>]
            /\ transitionLog' = invokeHandlers(transitionLog, hooks', payload')
            /\ adv' = [IdleAdv EXCEPT !.pc = "pre", !.input = input, !.caller = caller]
            /\ settled' = NoOutcome
            /\ invoked' = <<>>
            /\ postFired' = 0
    /\ UNCHANGED <<validTransitions, callbacks, lastAdd, initialState>>

advance(caller, input) == advanceFrom(currentState, caller, input)

\* a caller other than runFSM calls advance
Advance(input) ==
    /\ calls < MaxCalls
    /\ advance("user", input)
    /\ UNCHANGED <<run, lastRerun>>

\* a pending handler promise settles
HandlerSettle(i) ==
    /\ i \in 1..Len(hooks)
    /\ hooks[i].st = "pending"
    /\ hooks' = [hooks EXCEPT ![i].st = IF hooks[i].fails THEN "rejected" ELSE "fulfilled"]
    /\ fireErr' = IF hooks[i].fails /\ fireErr = <<>> THEN <<hooks[i].err>> ELSE fireErr
    /\ UNCHANGED <<currentState, inTransition, validTransitions, callbacks, adv,
                   settled, lastCall, calls, invoked, postFired, payload, lastAdd, run,
                   transitionLog, initialState, lastRerun>>

\* advance resumes after the join on the pretransition handlers (lines 84-128)
PreJoin ==
    /\ adv.pc = "pre"
    /\ PromiseAll(hooks, fireErr) # "pending"
    /\ IF PromiseAll(hooks, fireErr) = "rejected"
       THEN /\ inTransition' = FALSE
            /\ settled' = Rejected(fireErr[1])
            /\ Deliver(Rejected(fireErr[1]))
            /\ adv' = IdleAdv
            /\ UNCHANGED <<currentState, hooks, fireErr, invoked, postFired, payload,
                           lastAdd, transitionLog>>
       ELSE IF PropertyKey(currentState) \in DOMAIN validTransitions
       THEN Continue(scan(candidates, 1, Undefined, NoRule, <<>>))
       ELSE Continue([susp |-> FALSE, transitionIndex |-> 0, nextState |-> Undefined,
                      attemptedTransition |-> NoRule, transitionOutput |-> <<>>])
    /\ UNCHANGED <<validTransitions, callbacks, lastCall, calls, lastAdd,
                   initialState, lastRerun>>

\* the loop condition of line 91 reads the length of the rule list of a
\* currentState that has no list
lengthOfUndefined ==
    [t |-> "TypeError", d |-> "Cannot read properties of undefined (reading 'length')"]

\* advance resumes after the awaited transitionFn (lines 91-128); the loop
\* condition reads the live currentState
FnSettle ==
    /\ adv.pc = "fn"
    /\ LET a == attempt(adv.attemptedTransition,
                        invokePromiseFn(adv.attemptedTransition.transitionFn, adv.input))
       IN  IF ~Truthy(a.nextState) /\ PropertyKey(currentState) \notin DOMAIN validTransitions
           THEN /\ settled' = Rejected(lengthOfUndefined)
                /\ Deliver(Rejected(lengthOfUndefined))
                /\ adv' = IdleAdv
                /\ UNCHANGED <<currentState, inTransition, hooks, fireErr, invoked,
                               postFired, payload, lastAdd, transitionLog>>
           ELSE Continue(scan(candidates, adv.transitionIndex + 1, a.nextState,
                              adv.attemptedTransition, a.transitionOutput))
    /\ UNCHANGED <<validTransitions, callbacks, lastCall, calls, lastAdd,
                   initialState, lastRerun>>

\* the posttransition join with the state mutation rolled back on failure
PostJoinRollback ==
    /\ adv.pc = "post"
    /\ PromiseAll(hooks, fireErr) # "pending"
    /\ LET failed == PromiseAll(hooks, fireErr) = "rejected"
           outcome == IF failed THEN Rejected(fireErr[1])
                      ELSE Resolved(<<currentState>> \o adv.transitionOutput)
       IN  /\ settled' = outcome
           /\ Deliver(outcome)
           /\ currentState' = IF failed THEN adv.prevState ELSE currentState
    /\ inTransition' = FALSE
    /\ adv' = IdleAdv
    /\ UNCHANGED <<validTransitions, callbacks, hooks, fireErr,
                   lastCall, calls, invoked, postFired, payload, lastAdd,
                   transitionLog, initialState, lastRerun>>

\* a return of the nextState the attempted rule declares
PostJoinDeclared ==
    /\ adv.pc = "post"
    /\ PromiseAll(hooks, fireErr) # "pending"
    /\ LET outcome == IF PromiseAll(hooks, fireErr) = "rejected"
                      THEN Rejected(fireErr[1])
                      ELSE Resolved(<<adv.attemptedTransition.nextState>>
                                    \o adv.transitionOutput)
       IN  /\ settled' = outcome
           /\ Deliver(outcome)
    /\ inTransition' = FALSE
    /\ adv' = IdleAdv
    /\ UNCHANGED <<currentState, validTransitions, callbacks, hooks, fireErr,
                   lastCall, calls, invoked, postFired, payload, lastAdd,
                   transitionLog, initialState, lastRerun>>

\* advance resumes after the join on the posttransition handlers (lines 143-147)
PostJoin ==
    /\ adv.pc = "post"
    /\ PromiseAll(hooks, fireErr) # "pending"
    /\ LET outcome == IF PromiseAll(hooks, fireErr) = "rejected"
                      THEN Rejected(fireErr[1])
                      ELSE Resolved(<<currentState>> \o adv.transitionOutput)
       IN  /\ settled' = outcome
           /\ Deliver(outcome)
    /\ inTransition' = FALSE
    /\ adv' = IdleAdv
    /\ UNCHANGED <<currentState, validTransitions, callbacks, hooks, fireErr,
                   lastCall, calls, invoked, postFired, payload, lastAdd,
                   transitionLog, initialState, lastRerun>>

(***************************************************************************)
(* The run driver.                                                         *)
(***************************************************************************)
\* the finalStates argument: one state, or an array of states
Single(state) == [isArray |-> FALSE, vals |-> <<state>>]
List(states) == [isArray |-> TRUE, vals |-> states]

FinalStatesOptions == {Single(C), List(<<C>>), List(<<B>>)}

\* Array.isArray(finalStates) ? finalStates : [finalStates, ERROR]
normalize(finalStates) ==
    IF finalStates.isArray THEN finalStates.vals ELSE <<finalStates.vals[1], ERROR>>

includes(array, val) == \E i \in 1..Len(array) : array[i] = val

\* a destructuring that keeps the state among the arguments
destructureKeepState(result) == [nextState |-> Head(result), args |-> result]

\* [nextState, ...args] = result
destructure(result) == [nextState |-> Head(result), args |-> Tail(result)]

\* the body of runFSM's while loop up to the await: runFSM calls advance
\* with args and waits for it to settle
runAdvanceFrom(state, r) ==
    /\ calls < MaxCalls
    /\ advanceFrom(state, "run", r.args)
    /\ run' = [r EXCEPT !.pc = "await",
                         !.passed = Append(r.passed, r.args),
                         !.inbox = IF cannotAdvance
                                   THEN Rejected(FSMError("cannot advance while in transition"))
                                   ELSE NoOutcome]

runAdvance(r) == runAdvanceFrom(currentState, r)

\* a loop that tests the current state before its first advance
runFSMTestFirst(state, finalStates, args) ==
    LET r == [IdleRun EXCEPT !.finalStates = normalize(finalStates),
                             !.args = args, !.args0 = args, !.nextState = state]
    IN  IF includes(r.finalStates, r.nextState)
        THEN /\ run' = [r EXCEPT !.pc = "done", !.result = Resolved(<<state>> \o args)]
             /\ currentState' = state
             /\ UNCHANGED <<inTransition, validTransitions, callbacks,
                            adv, hooks, fireErr, settled, lastCall, calls, invoked,
                            postFired, payload, lastAdd, transitionLog, initialState>>
        ELSE runAdvanceFrom(state, r)

\* runFSM(fsm, finalStates, ...args) up to its first await (lines 47-50),
\* called when fsm.currentState is state
runFSM(state, finalStates, args) ==
    LET r == [IdleRun EXCEPT !.finalStates = normalize(finalStates),
                             !.args = args, !.args0 = args]
    IN  IF includes(r.finalStates, r.nextState)
        THEN /\ run' = [r EXCEPT !.pc = "done", !.result = Resolved(<<>>)]
             /\ currentState' = state
             /\ UNCHANGED <<inTransition, validTransitions, callbacks,
                            adv, hooks, fireErr, settled, lastCall, calls, invoked,
                            postFired, payload, lastAdd, transitionLog, initialState>>
        ELSE runAdvanceFrom(state, r)

RunFSM(finalStates, args) ==
    /\ run.pc = "idle"
    /\ runFSM(currentState, finalStates, args)
    /\ UNCHANGED lastRerun

\* runFSM resumes with the settlement of the advance it awaited (lines 49-52)
RunResume ==
    /\ run.pc = "await"
    /\ run.inbox.kind # "none"
    /\ IF run.inbox.kind = "rejected"
       THEN /\ run' = [run EXCEPT !.pc = "done", !.result = run.inbox, !.inbox = NoOutcome]
            /\ UNCHANGED <<currentState, inTransition, validTransitions, callbacks,
                           adv, hooks, fireErr, settled, lastCall, calls, invoked,
                           postFired, payload, lastAdd, transitionLog, initialState>>
       ELSE LET r == [run EXCEPT !.result = run.inbox,
                                 !.nextState = destructure(run.inbox.vals).nextState,
                                 !.args = destructure(run.inbox.vals).args,
                                 !.got = Append(run.got, run.inbox.vals),
                                 !.inbox = NoOutcome]
            IN  IF includes(r.finalStates, r.nextState)
                THEN /\ run' = [r EXCEPT !.pc = "done"]
                     /\ UNCHANGED <<currentState, inTransition, validTransitions,
                                    callbacks, adv, hooks, fireErr, settled, lastCall,
                                    calls, invoked, postFired, payload, lastAdd,
                                    transitionLog, initialState>>
                ELSE runAdvance(r)
    /\ UNCHANGED lastRerun

\* the records of an earlier run: arrivals at B with output x and, later,
\* with output y
Rec(from, to, input, output) ==
    TransitionRecord([from |-> from, to |-> to,
                      transition |-> Rule(Prepend(to), Undefined, Undefined),
                      input |-> input, output |-> output])

LogOptions ==
    { <<>>,
      <<Rec(A, B, <<x>>, <<x>>), Rec(B, A, <<x>>, <<x>>), Rec(A, B, <<y>>, <<y>>),
        Rec(B, C, <<y>>, <<y>>)>> }

\* the states rerunFSM resumes at
ResumeStates == {A, B, C}

\* the option objects of the specification of the resumption
RerunRuleOptions ==
    { Rule(NoFn, B, Undefined),
      Rule(Prepend(C), Undefined, Undefined),
      Rule(Ret(Undefined), Undefined, Undefined) }

\* transitionLog.slice().reverse()
Reverse(array) == [i \in 1..Len(array) |-> array[Len(array) + 1 - i]]

\* the arguments taken from the first matching record of the log as given
rerunArgsOldest(log, state) ==
    LET arrivals == SelectSeq(log, LAMBDA t : t.to = state)
    IN  IF arrivals = <<>> THEN <<>> ELSE arrivals[1].output

\* (transitionLog.slice().reverse().filter(t => t.to === initialState)[0]
\*  || {}).output || []
rerunArgs(log, state) ==
    LET arrivals == SelectSeq(Reverse(log), LAMBDA t : t.to = state)
    IN  IF arrivals = <<>> THEN <<>> ELSE arrivals[1].output

\* rerunFSM(fsm, initialState, finalStates, transitionLog) up to the first
\* await of the run it starts (lines 56-59)
RerunFSM(state, finalStates, log) ==
    /\ run.pc = "idle"
    /\ lastRerun' = [initialState |-> state, finalStates |-> normalize(finalStates),
                      transitionLog |-> log]
    /\ runFSM(state, finalStates, rerunArgs(log, state))

Next ==
    \/ \E r \in RuleOptions, p \in BOOLEAN : AddTransition(A, r, p)
    \/ \E input \in Inputs : Advance(input)
    \/ PreJoin
    \/ FnSettle
    \/ PostJoin

\* the transition table and advance, without event handlers
Spec == Init /\ [][Next]_vars

NextHooks ==
    \/ \E e \in {EVENTS["pretransition"], EVENTS["posttransition"]}, h \in HandlerOptions : On(e, h)
    \/ \E r \in HookRuleOptions, p \in BOOLEAN : AddTransition(A, r, p)
    \/ \E input \in Inputs : Advance(input)
    \/ \E i \in 1..MaxHandlers : HandlerSettle(i)
    \/ PreJoin
    \/ FnSettle
    \/ PostJoin

\* the callback registry and advance
SpecHooks == Init /\ [][NextHooks]_vars

NextRun ==
    \/ \E s \in StartingStates, r \in RunRuleOptions, p \in BOOLEAN : AddTransition(s, r, p)
    \/ \E input \in Inputs : Advance(input)
    \/ PreJoin
    \/ FnSettle
    \/ PostJoin
    \/ \E f \in FinalStatesOptions, args \in Inputs : RunFSM(f, args)
    \/ RunResume

\* the engine driven by runFSM and by direct calls of advance
SpecRun == Init /\ [][NextRun]_vars

\* the states of the specification of the table, and its option objects:
\* two of them have neither transitionFn nor nextState
TableStates == {A, B, EMPTY}

TableRuleOptions ==
    { Rule(NoFn, B, Undefined),
      Rule(Ret(C), Undefined, Undefined),
      Rule(NoFn, Undefined, Undefined),
      Rule(NoFn, Undefined, ERR1) }

NextTable ==
    \/ \E s \in TableStates, r \in TableRuleOptions, p \in BOOLEAN : AddTransition(s, r, p)
    \/ \E input \in Inputs : Advance(input)
    \/ PreJoin
    \/ FnSettle
    \/ PostJoin

\* the transition table with rules for several states
SpecTable == Init /\ [][NextTable]_vars

\* the handlers and the option objects of the specification of the joins:
\* handlers that fail or stay pending, a self-transition and a computed state
JoinHandlerOptions == HandlerOptions \ {Handler("sync", FALSE, Undefined)}

JoinRuleOptions ==
    { Rule(Ret(A), Undefined, Undefined),
      Rule(NoFn, B, Undefined) }

NextJoin ==
    \/ \E e \in {EVENTS["pretransition"], EVENTS["posttransition"]},
          h \in JoinHandlerOptions : Register(MaxJoined, e, h)
    \/ \E r \in JoinRuleOptions : AddTransition(A, r, FALSE)
    \/ \E input \in Inputs : Advance(input)
    \/ \E i \in 1..MaxJoined : HandlerSettle(i)
    \/ PreJoin
    \/ FnSettle
    \/ PostJoin

\* advance with several handlers of one event
SpecJoin == Init /\ [][NextJoin]_vars

NextLog ==
    \/ LogTransitions
    \/ \E e \in {EVENTS["pretransition"], EVENTS["posttransition"]},
          h \in FailingHandlerOptions : On(e, h)
    \/ \E r \in HookRuleOptions, p \in BOOLEAN : AddTransition(A, r, p)
    \/ \E input \in Inputs : Advance(input)
    \/ \E i \in 1..(MaxHandlers + 1) : HandlerSettle(i)
    \/ PreJoin
    \/ FnSettle
    \/ PostJoin

\* the engine with its log and failing event handlers
SpecLog == Init /\ [][NextLog]_vars

NextChain ==
    \/ LogTransitionsFirst
    \/ \E h \in FailingHandlerOptions : On(EVENTS["posttransition"], h)
    \/ \E s \in StartingStates, r \in HookRuleOptions : AddTransition(s, r, FALSE)
    \/ \E input \in Inputs : Advance(input)
    \/ \E i \in 1..(MaxHandlers + 1) : HandlerSettle(i)
    \/ PreJoin
    \/ FnSettle
    \/ PostJoin

\* the engine whose log is attached before the first advance and whose
\* currentState only advance writes
SpecChain == Init /\ [][NextChain]_vars

NextRerun ==
    \/ LogTransitions
    \/ \E s \in StartingStates, r \in RerunRuleOptions : AddTransition(s, r, FALSE)
    \/ Advance(<<v>>)
    \/ PreJoin
    \/ FnSettle
    \/ PostJoin
    \/ \E s \in ResumeStates, f \in FinalStatesOptions, log \in LogOptions \cup {transitionLog} :
          RerunFSM(s, f, log)
    \/ RunResume

\* the engine with its log, resumed by rerunFSM
SpecRerun == Init /\ [][NextRerun]_vars

(***************************************************************************)
(* Properties.                                                             *)
(***************************************************************************)
reentrancyError == FSMError("cannot advance while in transition")

\* a rule that is not applicable to the input: it declares no nextState and
\* its transitionFn returns a falsy value, an empty array or an array whose
\* first element is falsy
NotApplicable(rule, input) ==
    /\ ~Truthy(rule.nextState)
    /\ rule.transitionFn.body # "none"
    /\ LET o == invokePromiseFn(rule.transitionFn, input)
       IN  /\ o.kind = "return"
           /\ o.vals = <<>> \/ ~Truthy(o.vals[1])

HandlerFailed == \E i \in 1..Len(hooks) : hooks[i].st = "rejected"

RejectedByHandler(outcome) ==
    /\ outcome.kind = "rejected"
    /\ \E i \in 1..Len(hooks) : hooks[i].st = "rejected" /\ outcome.vals = <<hooks[i].err>>

\* C1: an advance call issued while an earlier advance of the instance is
\* suspended (in a pretransition hook, a transitionFn or a posttransition
\* hook) is rejected with 'cannot advance while in transition' and changes
\* nothing of the transition in flight: it is not queued and starts no
\* second transition
C1_ReentrantAdvanceRejected ==
    [][(adv.pc # "idle" /\ calls' = calls + 1)
          => /\ lastCall' = Rejected(reentrancyError)
             /\ UNCHANGED <<adv, currentState, inTransition, hooks, fireErr,
                            settled, invoked, postFired, payload, lastAdd>>]_vars

C1_Witness ==
    /\ adv.pc = "pre"
    /\ Len(hooks) = 1 /\ hooks[1].st = "pending"
    /\ Len(candidates) = 2
    /\ lastCall = Rejected(reentrancyError)
    /\ inTransition

\* C2: when advance has failed with 'No valid transition', the inTransition
\* guard is reset to false
C2_GuardResetAfterNoValidTransition ==
    (adv.pc = "idle" /\ settled.kind = "rejected" /\ settled.vals[1].t = "FSMError")
        => ~inTransition

\* C3: when no rule of the current state resolves a next state for the
\* input, the advance past its pretransition hooks only scans, and ends
\* rejected with 'No valid transition from state <label>', currentState
\* unchanged and no posttransition hook fired
C3_NoValidTransition ==
    [][(/\ adv.pc \in {"pre", "fn"}
        /\ ~(adv.pc = "pre" /\ HandlerFailed)
        /\ \A i \in 1..Len(candidates) : NotApplicable(candidates[i], adv.input)
        /\ adv' # adv)
          => /\ adv'.pc \in {"fn", "idle"}
             /\ currentState' = currentState
             /\ postFired' = 0
             /\ adv'.pc = "idle" =>
                   settled' = Rejected(FSMError("No valid transition from state "
                                                \o getLabel(currentState)))]_vars

C3_Witness ==
    /\ adv.pc = "idle"
    /\ settled = Rejected(FSMError("No valid transition from state A"))
    /\ invoked = <<1, 2>>
    /\ currentState = A
    /\ postFired = 0

\* C4: when a pretransition handler has failed, advance rejects with a
\* failed handler's error, no transitionFn is invoked, no posttransition
\* hook fires, currentState is the state before the call and inTransition
\* is false
C4_PretransitionFailure ==
    [][(adv.pc = "pre" /\ HandlerFailed /\ adv' # adv)
          => /\ adv'.pc = "idle"
             /\ RejectedByHandler(settled')
             /\ invoked' = <<>>
             /\ postFired' = 0
             /\ currentState' = payload.from
             /\ ~inTransition']_vars

C4_Witness ==
    /\ adv.pc = "idle"
    /\ payload.event = "pretransition"
    /\ settled = Rejected(Err("sync handler"))
    /\ Len(candidates) > 0
    /\ currentState = A
    /\ ~inTransition

\* C5: when a posttransition handler has failed, advance rejects with a
\* failed handler's error, currentState stays at the newly resolved state
\* and inTransition is false
C5_PosttransitionFailure ==
    [][(adv.pc = "post" /\ HandlerFailed /\ adv' # adv)
          => /\ adv'.pc = "idle"
             /\ RejectedByHandler(settled')
             /\ currentState' = adv.nextState
             /\ currentState' = payload.to
             /\ ~inTransition']_vars

C5_Witness ==
    /\ adv.pc = "idle"
    /\ payload.event = "posttransition"
    /\ settled.kind = "rejected"
    /\ payload.to # payload.from
    /\ currentState = payload.to
    /\ ~inTransition

\* the state whose rules the activation scans, its candidates and the index
\* of the candidate it attempts
fromState == IF adv.pc = "post" THEN adv.prevState ELSE currentState
fromCandidates == listOf(validTransitions, PropertyKey(fromState))
attemptedIndex == IF adv.pc = "post" THEN adv.transitionIndex - 1 ELSE adv.transitionIndex

HasFn(rule) == rule.transitionFn.body # "none"
Throws(rule, input) ==
    HasFn(rule) /\ invokePromiseFn(rule.transitionFn, input).kind = "throw"
Range(seq) == {seq[i] : i \in 1..Len(seq)}

\* addTransition puts a valid rule at the end of the sequence of its state,
\* or at its front when prepend is true
RegistrationOrder ==
    validTransitions' # validTransitions =>
        LET k == PropertyKey(lastAdd'.startingState)
        IN  validTransitions'[k] =
                IF lastAdd'.prepend THEN <<lastAdd'.rule>> \o listOf(validTransitions, k)
                ELSE listOf(validTransitions, k) \o <<lastAdd'.rule>>

\* the candidates before the attempted one were attempted in order and are
\* not applicable; the committed candidate is the first that resolves, and
\* no transitionFn of a later candidate was invoked
ScanOrder ==
    adv.pc \in {"fn", "post"} =>
        /\ attemptedIndex \in 1..Len(fromCandidates)
        /\ adv.attemptedTransition = fromCandidates[attemptedIndex]
        /\ \A j \in 1..(attemptedIndex - 1) : NotApplicable(fromCandidates[j], adv.input)
        /\ invoked = [j \in 1..Len(invoked) |-> j]
        /\ Len(invoked) = IF HasFn(adv.attemptedTransition) THEN attemptedIndex
                          ELSE attemptedIndex - 1
        /\ adv.pc = "post" => ~NotApplicable(adv.attemptedTransition, adv.input)

\* C6: the candidates of the current state are attempted one at a time in
\* table order (registration order, a rule added with prepend before the
\* rules registered earlier); the scan stops at the first candidate that
\* resolves a next state and invokes no later transitionFn
C6_CandidateOrder == [][RegistrationOrder /\ ScanOrder']_vars

C6_Witness ==
    /\ adv.pc = "post"
    /\ lastAdd.prepend /\ lastAdd.threw = <<>>
    /\ Len(fromCandidates) = 2
    /\ fromCandidates[1] = lastAdd.rule
    /\ fromCandidates[2] # fromCandidates[1]
    /\ HasFn(fromCandidates[2]) /\ ~NotApplicable(fromCandidates[2], adv.input)
    /\ invoked = <<1>>

\* what the transitionFn of a rule returned
Returned(rule, input) == Range(invokePromiseFn(rule.transitionFn, input).vals)

\* after a candidate that is not applicable the next one is attempted
NextAttempted ==
    (/\ adv.pc = "fn"
     /\ NotApplicable(adv.attemptedTransition, adv.input)
     /\ adv.transitionIndex < Len(candidates)
     /\ adv' # adv)
        => /\ adv'.pc \in {"fn", "post"}
           /\ adv'.attemptedTransition = candidates[adv.transitionIndex + 1]
           /\ invoked' = IF HasFn(candidates[adv.transitionIndex + 1])
                          THEN Append(invoked, adv.transitionIndex + 1) ELSE invoked

\* nothing a skipped candidate returned is in the state or the output of
\* the committed transition
NoLeak ==
    adv.pc = "post" =>
        \A j \in 1..(attemptedIndex - 1) :
            \A e \in Returned(fromCandidates[j], adv.input) :
                /\ e # currentState /\ e # payload.to
                /\ e \notin Range(adv.transitionOutput)
                /\ e \notin Range(payload.output)

\* C7: a candidate without nextState whose transitionFn returns a falsy
\* value, an empty array or an array with a falsy first element is not
\* applicable: the next candidate is attempted, and nothing the skipped
\* candidate returned appears in the state or output of the transition taken
C7_NotApplicableSkipped == [][NextAttempted /\ NoLeak']_vars

C7_Witness ==
    /\ adv.pc = "post"
    /\ fromCandidates = <<Rule(RetArr(<<Undefined, y>>), Undefined, Undefined),
                           Rule(NoFn, B, Undefined)>>
    /\ adv.attemptedTransition = fromCandidates[2]
    /\ currentState = B
    /\ adv.transitionOutput = <<>>

\* the rule's errorState if declared, the ERROR sentinel otherwise
errorTarget(rule) == IF rule.errorState # Undefined THEN rule.errorState ELSE ERROR
thrown(rule, input) == invokePromiseFn(rule.transitionFn, input).vals[1]

\* C8: when the transitionFn of the attempted candidate throws E, the scan
\* ends there, currentState becomes the rule's errorState if declared and
\* ERROR otherwise (also with a declared nextState), and advance resolves
\* with [S, E] (unless a posttransition handler fails, when it rejects with
\* the handler's error)
C8_TransitionFnFailure ==
    [][/\ (adv.pc = "fn" /\ Throws(adv.attemptedTransition, adv.input) /\ adv' # adv)
          => /\ adv'.pc = "post"
             /\ adv'.attemptedTransition = adv.attemptedTransition
             /\ invoked' = invoked
             /\ currentState' = errorTarget(adv.attemptedTransition)
             /\ adv'.transitionOutput = <<thrown(adv.attemptedTransition, adv.input)>>
       /\ (adv.pc = "post" /\ Throws(adv.attemptedTransition, adv.input) /\ adv' # adv)
          => /\ adv'.pc = "idle"
             /\ currentState' = errorTarget(adv.attemptedTransition)
             /\ IF HandlerFailed THEN RejectedByHandler(settled')
                ELSE settled' = Resolved(<<errorTarget(adv.attemptedTransition),
                                           thrown(adv.attemptedTransition, adv.input)>>)]_vars

C8_Witness ==
    /\ adv.pc = "idle"
    /\ settled = Resolved(<<ERR1, Err("err")>>)
    /\ currentState = ERR1
    /\ payload.transition = Rule(Throw(Err("err")), B, ERR1)
    /\ Len(listOf(validTransitions, PropertyKey(payload.from))) = 2
    /\ invoked = <<1>>

\* the state and the output a matched rule gives when its transitionFn
\* does not fail
Expected(rule, input) ==
    LET R == invokePromiseFn(rule.transitionFn, input)
        N == rule.nextState
    IN  IF N = Undefined
        THEN IF R.isArray
             THEN [state |-> Head(R.vals), output |-> Tail(R.vals)]
             ELSE [state |-> R.vals[1], output |-> <<>>]
        ELSE IF ~HasFn(rule) THEN [state |-> N, output |-> <<>>]
        ELSE IF R.isArray THEN [state |-> N, output |-> R.vals]
        ELSE IF Truthy(R.vals[1]) THEN [state |-> N, output |-> <<R.vals[1]>>]
        ELSE [state |-> N, output |-> <<>>]

\* C9: for a matched rule whose transitionFn does not fail, the state and
\* the output of the transition, and the value advance resolves with, are
\* those the rule shape and the returned value determine; a declared
\* nextState is the resulting state whatever the transitionFn returns
C9_ResultByRuleShape ==
    /\ (adv.pc = "post" /\ ~Throws(adv.attemptedTransition, adv.input))
          => LET e == Expected(adv.attemptedTransition, adv.input)
             IN  /\ currentState = e.state /\ payload.to = e.state
                 /\ adv.transitionOutput = e.output /\ payload.output = e.output
    /\ (adv.pc = "idle" /\ settled.kind = "resolved"
           /\ ~Throws(payload.transition, payload.input))
          => LET e == Expected(payload.transition, payload.input)
             IN  /\ settled.vals = <<e.state>> \o e.output
                 /\ currentState = e.state

C9_Witness ==
    /\ adv.pc = "idle"
    /\ payload.transition = Rule(Prepend(C), B, Undefined)
    /\ settled = Resolved(<<B, C, v>>)
    /\ currentState = B

\* C10: runFSM calls advance sequentially, the first time with its initial
\* input and then with the output of the previous call; it stops at the
\* first result whose state is a final state and returns that result
C10_RunFSMThreading ==
    LET n == Len(run.passed)
        m == Len(run.got)
        returned == run.pc = "done" /\ run.result.kind = "resolved"
    IN  run.pc # "idle" =>
            /\ n >= 1 /\ run.passed[1] = run.args0
            /\ \A k \in 2..n : run.passed[k] = Tail(run.got[k - 1])
            /\ m <= n /\ n <= m + 1
            /\ (n = m + 1) <=> (run.pc = "await" \/ run.result.kind = "rejected")
            /\ (run.pc = "await" /\ adv.caller = "run") => adv.input = run.passed[n]
            /\ \A k \in 1..m :
                  includes(run.finalStates, Head(run.got[k])) <=> (k = m /\ returned)
            /\ returned => (m >= 1 /\ run.result.vals = run.got[m])

C10_Witness ==
    /\ run.pc = "done"
    /\ run.result.kind = "resolved"
    /\ Len(run.got) = 2
    /\ run.passed[2] # run.args0
    /\ run.passed[2] # <<>>

\* C11: once an advance of the run has landed in a listed final state or in
\* ERROR, runFSM makes no further advance call and returns that result,
\* whether finalStates was a single state or a list
C11_ErrorIsTerminal ==
    \A k \in 1..Len(run.got) :
        (includes(run.finalStates, Head(run.got[k])) \/ Head(run.got[k]) = ERROR)
            => /\ Len(run.passed) = k
               /\ run.pc = "done"
               /\ run.result = Resolved(run.got[k])

\* the output of the latest record of log whose to is state, the empty
\* sequence when there is none
latestArrival(log, state) ==
    LET arrivals == {i \in 1..Len(log) : log[i].to = state}
    IN  IF arrivals = {} THEN <<>>
        ELSE log[CHOOSE i \in arrivals : \A j \in arrivals : j <= i].output

\* C12: rerunFSM sets currentState to the resume state without a
\* posttransition fire, a log record or a rule evaluation, and the first
\* advance of the run it starts gets the output of the latest record of the
\* log whose to is the resume state, or no input when there is none
C12_RerunFSM ==
    [][(run.pc = "idle" /\ run'.pc # "idle")
          => LET r == lastRerun'
                 args == latestArrival(r.transitionLog, r.initialState)
             IN  /\ currentState' = r.initialState
                 /\ run'.passed = <<args>>
                 /\ transitionLog' = transitionLog
                 /\ validTransitions' = validTransitions
                 /\ IF inTransition
                    THEN /\ lastCall' = Rejected(reentrancyError)
                         /\ UNCHANGED <<adv, hooks, payload, invoked, postFired>>
                    ELSE /\ adv'.pc = "pre" /\ adv'.input = args
                         /\ payload' = [NoPayload EXCEPT !.event = "pretransition",
                                                         !.from = r.initialState,
                                                         !.input = args]
                         /\ invoked' = <<>>
                         /\ postFired' = 0]_vars

C12_Witness ==
    /\ run.pc = "await" /\ adv.pc = "pre"
    /\ lastRerun.initialState = B /\ currentState = B /\ initialState = A
    /\ Len(lastRerun.transitionLog) = 4
    /\ adv.input = <<y>>
    /\ Len(listOf(callbacks, EVENTS["posttransition"])) = 1

\* a log is attached to the instance
Logging ==
    \E i \in 1..Len(listOf(callbacks, EVENTS["posttransition"])) :
        callbacks[EVENTS["posttransition"]][i] = LogHandler

\* the step in which an advance commits its transition
Commits == adv.pc \in {"pre", "fn"} /\ adv'.pc = "post"

\* C13: with a log attached, every advance that commits a transition adds
\* exactly one record (from, to, input and output are the previous state,
\* the new state, the input and the output of that transition); an advance
\* that fails in a pretransition hook, by reentrancy or with no valid
\* transition adds none; the records already in the log stay as they are
C13_LogRecords ==
    [][/\ (Logging /\ Commits)
             => transitionLog' = Append(transitionLog,
                                        [from |-> currentState, to |-> currentState',
                                         transition |-> adv'.attemptedTransition,
                                         input |-> adv.input,
                                         output |-> adv'.transitionOutput])
       /\ ~Commits => transitionLog' = transitionLog
       /\ Len(transitionLog') >= Len(transitionLog)
       /\ SubSeq(transitionLog', 1, Len(transitionLog)) = transitionLog]_vars

C13_Witness ==
    /\ Len(transitionLog) = 1
    /\ transitionLog[1].from = A /\ transitionLog[1].to = B
    /\ transitionLog[1].input = <<v>>
    /\ calls = 2 /\ adv.pc = "idle"
    /\ settled = Rejected(FSMError("No valid transition from state B"))

\* the error addTransition throws for a rule without transitionFn and
\* nextState
structuralError(startingState) ==
    FSMError("cannot add transition from " \o getLabel(startingState)
             \o " without a transitionFn or nextState defined")

\* array without its element at index i
Without(array, i) == SubSeq(array, 1, i - 1) \o SubSeq(array, i + 1, Len(array))

\* C14: addTransition with a rule that has neither transitionFn nor
\* nextState throws a structural FSMError and leaves the table as it was (no
\* entry created or extended); with a valid rule it adds exactly one entry
\* to the sequence of the starting state and changes no other sequence
C14_AddTransition ==
    [][(lastAdd' # lastAdd \/ validTransitions' # validTransitions)
          => LET s == lastAdd'.startingState
                 k == PropertyKey(s)
                 rule == lastAdd'.rule
             IN  IF rule.transitionFn = NoFn /\ ~Truthy(rule.nextState)
                 THEN /\ lastAdd'.threw = <<structuralError(s)>>
                      /\ validTransitions' = validTransitions
                 ELSE /\ lastAdd'.threw = <<>>
                      /\ DOMAIN validTransitions' = DOMAIN validTransitions \cup {k}
                      /\ \E i \in 1..Len(validTransitions'[k]) :
                            /\ validTransitions'[k][i] = rule
                            /\ Without(validTransitions'[k], i) = listOf(validTransitions, k)
                      /\ \A h \in DOMAIN validTransitions :
                            h # k => validTransitions'[h] = validTransitions[h]]_vars

C14_Witness ==
    /\ lastAdd.threw = <<structuralError(B)>>
    /\ lastAdd.rule = Rule(NoFn, Undefined, ERR1)
    /\ DOMAIN validTransitions = {PropertyKey(A)}
    /\ Len(validTransitions[PropertyKey(A)]) = 1

\* one promise per handler registered for the event, in the order of the
\* registry
StartedAll(eventName) ==
    LET list == listOf(callbacks, eventName)
    IN  /\ Len(hooks) = Len(list)
        /\ \A i \in 1..Len(list) : hooks[i].fn = list[i]

AllFulfilled == \A i \in 1..Len(hooks) : hooks[i].st = "fulfilled"

\* the phase an advance is in, and what its handlers were started with
Phases ==
    /\ adv.pc = "pre" =>
          /\ StartedAll(EVENTS["pretransition"])
          /\ payload = [NoPayload EXCEPT !.event = "pretransition",
                                         !.from = currentState, !.input = adv.input]
          /\ invoked = <<>> /\ postFired = 0
    /\ adv.pc = "fn" =>
          /\ payload.event = "pretransition"
          /\ StartedAll(EVENTS["pretransition"]) /\ AllFulfilled
          /\ invoked # <<>> /\ postFired = 0
    /\ adv.pc = "post" =>
          /\ StartedAll(EVENTS["posttransition"])
          /\ payload.event = "posttransition"
          /\ payload.from = adv.prevState /\ payload.to = currentState
          /\ payload.input = adv.input /\ payload.output = adv.transitionOutput
          /\ currentState = adv.nextState
          /\ postFired = 1

\* C15: within one advance every pretransition handler is started with
\* {from: currentState, input} and all of them have completed before a
\* transitionFn is invoked; the posttransition handlers are started only
\* after currentState is the resolved state, with from = the previous state
\* and to = the new current state; posttransition fires for every committed
\* transition, a self-transition included
C15_PhaseOrder ==
    [][/\ Phases'
       /\ invoked' # invoked /\ invoked' # <<>>
             => /\ payload.event = "pretransition" /\ StartedAll(EVENTS["pretransition"])
                /\ AllFulfilled
       /\ postFired' # postFired /\ postFired' # 0
             => /\ payload.event = "pretransition" /\ AllFulfilled
                /\ payload'.from = currentState /\ payload'.to = currentState'
                /\ currentState' = adv'.nextState
       /\ (currentState' # currentState \/ settled'.kind = "resolved")
             => postFired' = 1]_vars

C15_Witness ==
    /\ adv.pc = "post"
    /\ payload.from = A /\ payload.to = A /\ currentState = A
    /\ Len(listOf(callbacks, EVENTS["pretransition"])) = 2
    /\ invoked = <<1>>
    /\ postFired = 1

\* C16: while a handler started by an advance is still pending, that
\* advance has neither returned nor propagated a failure and the
\* inTransition guard is held, also when another handler of the event has
\* already failed
C16_JoinWaitsForAll ==
    (\E i \in 1..Len(hooks) : hooks[i].st = "pending")
        => (adv.pc \in {"pre", "post"} /\ inTransition /\ settled = NoOutcome)

\* the states having registered rules
HavingRules(state) == PropertyKey(state) \in DOMAIN validTransitions

\* the states the registered rules name for the input: a declared
\* nextState, a declared errorState, the state a transitionFn returns
NamedByRule(state, input) ==
    \E k \in DOMAIN validTransitions :
        \E i \in 1..Len(validTransitions[k]) :
            LET rule == validTransitions[k][i]
                R == invokePromiseFn(rule.transitionFn, input)
            IN  \/ state = rule.nextState
                \/ state = rule.errorState
                \/ /\ HasFn(rule) /\ R.kind = "return" /\ R.vals # <<>>
                   /\ state = R.vals[1]

\* C17 as stated: every advance returns a state having registered rules,
\* EMPTY or ERROR, or throws a structural FSMError
C17_ReturnsTableState ==
    /\ (adv.pc = "idle" /\ settled.kind = "resolved")
          => LET state == Head(settled.vals)
             IN  HavingRules(state) \/ state \in {EMPTY, ERROR}
    /\ (adv.pc = "idle" /\ settled.kind = "rejected") => settled.vals[1].t = "FSMError"

\* C17 as amended: every advance returns a state having registered rules,
\* a state a registered rule names (its nextState, its errorState or the
\* state its transitionFn returns), EMPTY or ERROR, or throws a structural
\* FSMError
C17_ReturnsNamedState ==
    /\ (adv.pc = "idle" /\ settled.kind = "resolved")
          => LET state == Head(settled.vals)
             IN  /\ Truthy(state)
                 /\ \/ HavingRules(state)
                    \/ NamedByRule(state, payload.input)
                    \/ state \in {EMPTY, ERROR}
    /\ (adv.pc = "idle" /\ settled.kind = "rejected") => settled.vals[1].t = "FSMError"

C17_Witness ==
    /\ adv.pc = "idle"
    /\ settled = Resolved(<<C>>)
    /\ ~HavingRules(C)
    /\ payload.transition = Rule(Ret(C), Undefined, Undefined)
    /\ payload.from = A

\* on appends the handler to the list of its event
RegistryOrder ==
    callbacks' # callbacks =>
        \E e \in {EVENTS["pretransition"], EVENTS["posttransition"]},
          h \in HandlerOptions \cup {LogHandler} :
            /\ DOMAIN callbacks' = DOMAIN callbacks \cup {e}
            /\ callbacks'[e] = Append(listOf(callbacks, e), h)
            /\ \A k \in DOMAIN callbacks : k # e => callbacks'[k] = callbacks[k]

\* a handler of the fired event before the logging handler has failed
FailedBeforeLog ==
    \E i, j \in 1..Len(hooks) :
        i < j /\ hooks[i].fails /\ hooks[i].fn.mode # "log" /\ hooks[j].fn = LogHandler

\* C18: a fire invokes every handler registered for the event, in
\* registration order and with the payload of the fire, also when an earlier
\* handler throws or rejects; a failing posttransition handler registered
\* before logTransitions does not keep the record of the transition out of
\* the log
C18_EveryHandlerInvoked ==
    [][/\ RegistryOrder
       /\ (adv'.pc = "pre" /\ adv.pc # "pre") => StartedAll(EVENTS["pretransition"])'
       /\ (adv'.pc = "post" /\ adv.pc # "post")
             => /\ StartedAll(EVENTS["posttransition"])'
                /\ Logging => transitionLog'
                                = Append(transitionLog, TransitionRecord(payload'))]_vars

C18_Witness ==
    /\ adv.pc = "idle"
    /\ payload.event = "posttransition"
    /\ Len(hooks) = 2 /\ FailedBeforeLog
    /\ settled = Rejected(hooks[1].err)
    /\ transitionLog = <<TransitionRecord(payload)>>

\* the state and the output the candidates of list give for input, from
\* candidate i on
RECURSIVE resolve(_, _, _)
resolve(list, i, input) ==
    IF i > Len(list) THEN [nextState |-> Undefined, transitionOutput |-> <<>>]
    ELSE LET a == IF HasFn(list[i])
                  THEN attempt(list[i], invokePromiseFn(list[i].transitionFn, input))
                  ELSE [nextState |-> list[i].nextState, transitionOutput |-> <<>>]
         IN  IF Truthy(a.nextState) THEN a ELSE resolve(list, i + 1, input)

\* C19: an advance call rejected by the reentrancy guard changes nothing:
\* currentState, inTransition (still true), the rule table, the hook lists
\* and the advance in flight are as before, no hook and no transitionFn is
\* invoked; the advance in flight commits and returns the state and output
\* that the table and its input determine
C19_RejectedCallChangesNothing ==
    [][/\ (calls' = calls + 1 /\ lastCall' = Rejected(reentrancyError))
             => /\ inTransition /\ inTransition'
                /\ UNCHANGED <<currentState, validTransitions, callbacks, adv, hooks,
                               fireErr, settled, invoked, postFired, payload, lastAdd,
                               run, transitionLog, initialState, lastRerun>>
       /\ Commits
             => LET r == resolve(candidates, 1, adv.input)
                IN  /\ currentState' = r.nextState
                    /\ adv'.transitionOutput = r.transitionOutput
       /\ (adv.pc = "post" /\ adv'.pc = "idle" /\ settled'.kind = "resolved")
             => settled'.vals = <<currentState>> \o adv.transitionOutput]_vars

C19_Witness ==
    /\ adv.pc = "idle"
    /\ lastCall = Rejected(reentrancyError)
    /\ calls = 2
    /\ settled = Resolved(<<B>>)
    /\ currentState = B
    /\ Len(listOf(callbacks, EVENTS["pretransition"])) = 1
    /\ ~inTransition

\* the state the log ends in
Tip == IF transitionLog = <<>> THEN initialState
       ELSE transitionLog[Len(transitionLog)].to

\* C20: for an instance whose log was attached before its first advance and
\* whose currentState only advance writes, the log is a chain (the first
\* record's from is the initial state, every later record's from is the
\* previous record's to), and whenever no advance is in flight currentState
\* is the to of the last record, or the initial state when the log is empty
C20_LogIsChain ==
    Logging =>
        /\ transitionLog # <<>> => transitionLog[1].from = initialState
        /\ \A k \in 2..Len(transitionLog) :
              transitionLog[k].from = transitionLog[k - 1].to
        /\ adv.pc = "idle" => currentState = Tip

C20_Witness ==
    /\ Logging
    /\ adv.pc = "idle"
    /\ Len(transitionLog) = 2
    /\ transitionLog[1].from = A /\ transitionLog[1].to = B
    /\ transitionLog[2].from = B /\ transitionLog[2].to = A
    /\ currentState = A

\* the run was started with currentState among its final states
StartedFinal == run.pc # "idle" /\ includes(run.finalStates, lastRerun.initialState)

\* the first advance of the run is the advance in flight
FirstOfRun == adv.caller = "run" /\ Len(run.passed) = 1 /\ Len(run.got) = 0

\* C21: runFSM makes an advance call before it can return: started with
\* currentState among the final states it does not return at once; its
\* first advance makes a transition out of that state, or fails with 'No
\* valid transition' when the state has no applicable rule (or is rejected
\* by the guard when an advance is in flight), and a returned result is the
\* result of an advance
C21_AdvanceBeforeTest ==
    [][/\ (run.pc = "idle" /\ run'.pc # "idle")
             => /\ run'.pc = "await"
                /\ calls' = calls + 1
                /\ run'.passed = <<run'.args0>> /\ run'.got = <<>>
                /\ inTransition => run'.inbox = Rejected(reentrancyError)
                /\ ~inTransition => (adv'.pc = "pre" /\ adv'.caller = "run"
                                      /\ payload'.from = lastRerun'.initialState)
       /\ (StartedFinal /\ FirstOfRun /\ adv' # adv)
             => \/ adv'.pc = "fn" /\ currentState' = lastRerun.initialState
                \/ /\ adv'.pc = "post"
                   /\ adv'.prevState = lastRerun.initialState
                   /\ payload'.from = lastRerun.initialState
                   /\ currentState' = payload'.to
                \/ /\ adv'.pc = "idle" /\ adv.pc = "post"
                   /\ run'.inbox = Resolved(<<currentState>> \o adv.transitionOutput)
                \/ /\ adv'.pc = "idle" /\ adv.pc # "post"
                   /\ run'.inbox = Rejected(noValidTransition(lastRerun.initialState))
                   /\ resolve(listOf(validTransitions, PropertyKey(lastRerun.initialState)),
                              1, adv.input).nextState = Undefined
       /\ (run'.pc = "done" /\ run'.result.kind = "resolved")
             => /\ Len(run'.got) >= 1
                /\ run'.result.vals = run'.got[Len(run'.got)]]_vars

C21_Witness ==
    /\ StartedFinal
    /\ lastRerun.initialState = B /\ run.finalStates = <<B>>
    /\ run.pc = "await" /\ Len(run.passed) = 2
    /\ Head(run.got[1]) = C
    /\ currentState = C

\* C22: for every advance that commits a transition the from of its
\* posttransition payload is the from of its pretransition payload; a
\* rerunFSM call made while an advance is suspended is rejected by the
\* reentrancy guard and leaves currentState unchanged
C22_FromIsScannedState ==
    [][/\ Commits => payload'.from = payload.from
       /\ (run.pc = "idle" /\ run'.pc # "idle" /\ adv.pc # "idle")
             => /\ run'.inbox = Rejected(reentrancyError)
                /\ currentState' = currentState]_vars

====
